---- MODULE Spec2Model ----
(***************************************************************************)
(* Model of vision_app/views.py: the process-wide SessionState and CONFIG, *)
(* the GeminiVisionService and the request handlers, each request running  *)
(* on its own thread.  A handler is cut into steps at every access to     *)
(* shared state (session_state.*, CONFIG, the lock); purely local work is  *)
(* folded into the step that precedes it.                                  *)
(***************************************************************************)
EXTENDS Integers, Sequences, FiniteSets, TLC

\* ------------------------------------------------------------------ bounds
NumThreads == 2
MaxFrames == 2
MaxSeqFrames == 6
MaxRequests == 3
MaxTime == 1

Threads == 1..NumThreads
Times == 1..MaxTime

\* ------------------------------------------------------------ program data
\* A result string: its text, and the frame number formatted into it (0 when
\* the text embeds none).
Str(s) == [text |-> s, n |-> 0]
Fmt(s, k) == [text |-> s, n |-> k]

NoResultsYet == Str("No results yet")
SessionStarted == Str("Session started - waiting for first image...")
SessionEnded == Str("Session ended")
NotConfigured == Str("Error: Gemini API key not configured")
NoResponse(k) == Fmt("Q: Frame {n}\nA: No response from API", k)
ProcessingError(k) == Fmt("Q: Frame {n}\nA: Processing error: ...", k)
CaptureIssue(k) == Fmt("Q: Frame {n}\nA: Image capture issue", k)

\* Texts the external API can answer with (response.text.strip()).
ApiTexts == {Str("Q: 7\nA: Option A")}

test_responses ==
  << "Q: Question 1\nA: Option C",
     "Q: Question 2\nA: Option B",
     "Q: Physics Problem\nA: 9.8 m/s2",
     "Q: Math Equation\nA: x = 15",
     "Q: No question detected\nA: N/A" >>

\* Mutant: reads the list with a 1-based index (no shift, so frame 5 maps to
\* the last entry and frame 0 wraps to it too).
MutGenerateOffByOne(frame_number) ==
  Str(test_responses[((frame_number + 4) % Len(test_responses)) + 1])

\* Mutant: cycles over one entry too few.
MutGenerateShortCycle(frame_number) ==
  Str(test_responses[(frame_number % (Len(test_responses) - 1)) + 1])

\* _generate_test_response: test_responses[frame_number % len(test_responses)]
\* (Python lists are 0-based, TLA+ sequences 1-based).
_generate_test_response(frame_number) ==
  Str(test_responses[(frame_number % Len(test_responses)) + 1])

CannedResults == {Str(test_responses[i]) : i \in 1..Len(test_responses)}

max_retries == 3
NoneTime == 0

\* Mutant: no lower clamp on capture_interval.
MutClampNone(v) == v

\* max(2, int(data['capture_interval']))
ClampInterval(v) == IF v > 2 THEN v ELSE 2

\* Values a request may carry for capture_interval (after int()).
IntervalInputs == {-1, 1, 20}

\* Values a request may carry for quality (after float()).
QualityInputs == {1}

\* ------------------------------------------------------------------- state
VARIABLES
  active, processed_count, latest_result, last_update, test_mode, frame_number,
  lock,        \* SessionState._lock: 0 when free, else the thread holding it
  CONFIG,      \* the module-level CONFIG dict
  api_key,     \* whether settings.GEMINI_API_KEY is set
  th,          \* per request thread: position, locals, response
  committed,   \* the session as the last completed store operation left it
  served       \* requests accepted so far by the concurrent server

vars == << active, processed_count, latest_result, last_update, test_mode,
           frame_number, lock, CONFIG, api_key, th, committed, served >>

session == << active, processed_count, latest_result, last_update, test_mode,
              frame_number >>

\* The session's fields as one value.
Sess ==
  [ active |-> active, processed_count |-> processed_count,
    latest_result |-> latest_result, last_update |-> last_update,
    test_mode |-> test_mode, frame_number |-> frame_number ]

NoResp == [status |-> "none"]

\* A thread that is serving no request.
Idle ==
  [ pc |-> "idle", req |-> "none", img |-> "none", n |-> 0, tm |-> FALSE,
    result |-> Str(""), attempt |-> 0, tmp |-> 0, count |-> 0, resp |-> NoResp,
    calls |-> 0, sleeps |-> 0, snaps |-> {},
    supplied |-> {}, arg |-> 0 ]

\* SessionState.__init__, CONFIG, GeminiVisionService.__init__
Init ==
  /\ active = FALSE
  /\ processed_count = 0
  /\ latest_result = NoResultsYet
  /\ last_update = NoneTime
  /\ test_mode = FALSE
  /\ frame_number = 0
  /\ lock = 0
  /\ CONFIG = [capture_interval |-> 20, test_mode |-> FALSE,
               max_retries |-> max_retries, retry_delay |-> 1]
  /\ api_key \in BOOLEAN
  /\ th = [t \in Threads |-> Idle]
  /\ committed = [ active |-> FALSE, processed_count |-> 0,
                   latest_result |-> NoResultsYet, last_update |-> NoneTime,
                   test_mode |-> FALSE, frame_number |-> 0 ]
  /\ served = 0

\* No request but t's is in flight.
Alone(t) == \A u \in Threads \ {t} : th[u].pc = "idle"

\* Thread t moves to record r; nothing is committed to the store.
Move(t, r) ==
  th' = [th EXCEPT ![t] = r] /\ committed' = committed /\ served' = served

Polling(u) == th[u].req \in {"latest", "status"} /\ th[u].pc # "done"

\* t is inside a start_session or end_session that has yet to finish its writes.
Restarting(u) == th[u].req \in {"start", "end"} /\ th[u].pc \notin {"idle", "done"}

\* Thread t accepts a request and moves to record r.  The sequential server
\* (alone) takes it when no other request is in flight; the concurrent one
\* takes it at any time, up to MaxRequests requests in a run.  A poll in
\* flight notes the start_session or end_session it now overlaps.
Accept(t, r, alone) ==
  /\ IF alone THEN Alone(t) /\ served' = served
              ELSE served < MaxRequests /\ served' = served + 1
  /\ th' = [u \in Threads |->
              IF u = t THEN r
              ELSE IF Polling(u) /\ r.req \in {"start", "end"} /\ r.pc # "done"
                   THEN [th[u] EXCEPT !.snaps = @ \cup {[op |-> r.req, s |-> committed]}]
              ELSE th[u]]
  /\ committed' = committed

\* What a poll overlaps as it begins: the store as last committed, and every
\* start_session or end_session in flight.
Overlapped(t) ==
  {[op |-> "before", s |-> committed]} \cup
  {[op |-> th[u].req, s |-> committed] : u \in {v \in Threads \ {t} : Restarting(v)}}

\* Thread t moves to record r and completes store operation op, which leaves
\* the session as s: every poll in flight has now overlapped that state.
Commit(t, r, op, s) ==
  /\ committed' = s
  /\ served' = served
  /\ th' = [u \in Threads |->
              IF u = t THEN r
              ELSE IF Polling(u)
                   THEN [th[u] EXCEPT !.snaps = @ \cup {[op |-> op, s |-> s]}]
              ELSE th[u]]

\* time.time(): the wall clock, which no handler controls.
Now == Times

\* ----------------------------------------------------------- start_session
\* Lines 164-165: parse the body, pick the request's test_mode or CONFIG's
\* (supplied and arg keep what the body held: arg is 1 for true).
\* An unparsable body raises before any write and is answered with HTTP 500.
start_session_body(t, alone) ==
  /\ th[t].pc = "idle"
  /\ \E body \in {"empty", "true", "false", "bad"} :
       IF body = "bad"
       THEN Accept(t, [Idle EXCEPT !.pc = "done", !.req = "start",
                       !.resp = [status |-> "error", code |-> 500]], alone)
       ELSE Accept(t, [Idle EXCEPT !.pc = "s_active", !.req = "start",
                       !.supplied = IF body = "empty" THEN {} ELSE {"test_mode"},
                       !.arg = IF body = "true" THEN 1 ELSE 0,
                       !.tm = CASE body = "true" -> TRUE
                                [] body = "false" -> FALSE
                                [] OTHER -> CONFIG.test_mode], alone)
  /\ UNCHANGED << session, lock, CONFIG, api_key >>

\* Line 167
start_session_active(t) ==
  /\ th[t].pc = "s_active"
  /\ active' = TRUE
  /\ Move(t, [th[t] EXCEPT !.pc = "s_processed_count"])
  /\ UNCHANGED << processed_count, latest_result, last_update, test_mode,
                  frame_number, lock, CONFIG, api_key >>

\* Line 168
start_session_processed_count(t) ==
  /\ th[t].pc = "s_processed_count"
  /\ processed_count' = 0
  /\ Move(t, [th[t] EXCEPT !.pc = "s_frame_number"])
  /\ UNCHANGED << active, latest_result, last_update, test_mode, frame_number,
                  lock, CONFIG, api_key >>

\* Mutant: start_session leaves frame_number as it finds it.
Mut_start_session_frame_number(t) ==
  /\ th[t].pc = "s_frame_number"
  /\ Move(t, [th[t] EXCEPT !.pc = "s_test_mode"])
  /\ UNCHANGED << session, lock, CONFIG, api_key >>

\* Line 169
start_session_frame_number(t) ==
  /\ th[t].pc = "s_frame_number"
  /\ frame_number' = 0
  /\ Move(t, [th[t] EXCEPT !.pc = "s_test_mode"])
  /\ UNCHANGED << active, processed_count, latest_result, last_update,
                  test_mode, lock, CONFIG, api_key >>

\* Line 170
start_session_test_mode(t) ==
  /\ th[t].pc = "s_test_mode"
  /\ test_mode' = th[t].tm
  /\ Move(t, [th[t] EXCEPT !.pc = "s_latest_result"])
  /\ UNCHANGED << active, processed_count, latest_result, last_update,
                  frame_number, lock, CONFIG, api_key >>

\* Line 171
start_session_latest_result(t) ==
  /\ th[t].pc = "s_latest_result"
  /\ latest_result' = SessionStarted
  /\ Move(t, [th[t] EXCEPT !.pc = "s_last_update"])
  /\ UNCHANGED << active, processed_count, last_update, test_mode,
                  frame_number, lock, CONFIG, api_key >>

\* Lines 172-180: the last write, then the response.
start_session_last_update(t) ==
  /\ th[t].pc = "s_last_update"
  /\ \E now \in Now : last_update' = now
  /\ Commit(t, [th[t] EXCEPT !.pc = "done",
                  !.resp = [status |-> "success", test_mode |-> th[t].tm]],
            "start_session", [Sess EXCEPT !.last_update = last_update'])
  /\ UNCHANGED << active, processed_count, latest_result, test_mode,
                  frame_number, lock, CONFIG, api_key >>

\* ------------------------------------------- SessionState.update_result
\* Lines 37-38: take the lock, read processed_count.  process_image has
\* returned: its locals are gone.
update_result_lock(t) ==
  /\ th[t].pc = "ur_lock"
  /\ lock = 0
  /\ lock' = t
  /\ Move(t, [th[t] EXCEPT !.pc = "ur_processed_count", !.tmp = processed_count,
                !.calls = 0, !.sleeps = 0, !.attempt = 0])
  /\ UNCHANGED << session, CONFIG, api_key >>

\* Mutant: update_result forgets to count the frame as processed.
Mut_update_result_processed_count(t) ==
  /\ th[t].pc = "ur_processed_count"
  /\ Move(t, [th[t] EXCEPT !.pc = "ur_frame_load"])
  /\ UNCHANGED << session, lock, CONFIG, api_key >>

\* Line 38: store processed_count + 1.
update_result_processed_count(t) ==
  /\ th[t].pc = "ur_processed_count"
  /\ processed_count' = th[t].tmp + 1
  /\ Move(t, [th[t] EXCEPT !.pc = "ur_frame_load"])
  /\ UNCHANGED << active, latest_result, last_update, test_mode, frame_number,
                  lock, CONFIG, api_key >>

\* Line 39: read frame_number.
update_result_frame_load(t) ==
  /\ th[t].pc = "ur_frame_load"
  /\ Move(t, [th[t] EXCEPT !.pc = "ur_frame_number", !.tmp = frame_number])
  /\ UNCHANGED << session, lock, CONFIG, api_key >>

\* Line 39: store frame_number + 1.
update_result_frame_number(t) ==
  /\ th[t].pc = "ur_frame_number"
  /\ frame_number' = th[t].tmp + 1
  /\ Move(t, [th[t] EXCEPT !.pc = "ur_latest_result"])
  /\ UNCHANGED << active, processed_count, latest_result, last_update,
                  test_mode, lock, CONFIG, api_key >>

\* Mutant: a frame that produced no genuine answer ends the session.
Mut_update_result_latest_result(t) ==
  /\ th[t].pc = "ur_latest_result"
  /\ latest_result' = th[t].result
  /\ active' = (th[t].result \in ApiTexts \cup CannedResults)
  /\ Move(t, [th[t] EXCEPT !.pc = "ur_last_update"])
  /\ UNCHANGED << processed_count, last_update, test_mode,
                  frame_number, lock, CONFIG, api_key >>

\* Line 40
update_result_latest_result(t) ==
  /\ th[t].pc = "ur_latest_result"
  /\ latest_result' = th[t].result
  /\ Move(t, [th[t] EXCEPT !.pc = "ur_last_update"])
  /\ UNCHANGED << active, processed_count, last_update, test_mode,
                  frame_number, lock, CONFIG, api_key >>

\* Mutant: update_result returns without releasing the lock.
Mut_update_result_last_update(t) ==
  /\ th[t].pc = "ur_last_update"
  /\ \E now \in Now : last_update' = now
  /\ Commit(t, [th[t] EXCEPT !.pc = "u_resp_processed_count"],
            "update_result", [Sess EXCEPT !.last_update = last_update'])
  /\ UNCHANGED << active, processed_count, latest_result, test_mode,
                  frame_number, lock, CONFIG, api_key >>

\* Lines 41-42: the last write; leaving the with block releases the lock.
update_result_last_update(t) ==
  /\ th[t].pc = "ur_last_update"
  /\ \E now \in Now : last_update' = now
  /\ lock' = 0
  /\ Commit(t, [th[t] EXCEPT !.pc = "u_resp_processed_count"],
            "update_result", [Sess EXCEPT !.last_update = last_update'])
  /\ UNCHANGED << active, processed_count, latest_result, test_mode,
                  frame_number, CONFIG, api_key >>

\* ------------------------------------------------------ SessionState.reset
\* Lines 45-46: take the lock, clear active.
reset_active(t) ==
  /\ th[t].pc = "r_lock"
  /\ lock = 0
  /\ lock' = t
  /\ active' = FALSE
  /\ Move(t, [th[t] EXCEPT !.pc = "r_processed_count"])
  /\ UNCHANGED << processed_count, latest_result, last_update, test_mode,
                  frame_number, CONFIG, api_key >>

\* Line 47
reset_processed_count(t) ==
  /\ th[t].pc = "r_processed_count"
  /\ processed_count' = 0
  /\ Move(t, [th[t] EXCEPT !.pc = "r_frame_number"])
  /\ UNCHANGED << active, latest_result, last_update, test_mode, frame_number,
                  lock, CONFIG, api_key >>

\* Line 48
reset_frame_number(t) ==
  /\ th[t].pc = "r_frame_number"
  /\ frame_number' = 0
  /\ Move(t, [th[t] EXCEPT !.pc = "r_latest_result"])
  /\ UNCHANGED << active, processed_count, latest_result, last_update,
                  test_mode, lock, CONFIG, api_key >>

\* Line 49
reset_latest_result(t) ==
  /\ th[t].pc = "r_latest_result"
  /\ latest_result' = SessionEnded
  /\ Move(t, [th[t] EXCEPT !.pc = "r_last_update"])
  /\ UNCHANGED << active, processed_count, last_update, test_mode,
                  frame_number, lock, CONFIG, api_key >>

\* Line 50, the release of the lock, and end_session's response (200-204).
reset_last_update(t) ==
  /\ th[t].pc = "r_last_update"
  /\ \E now \in Now : last_update' = now
  /\ lock' = 0
  /\ Commit(t, [th[t] EXCEPT !.pc = "done",
                  !.resp = [status |-> "success",
                            processed_count |-> th[t].count,
                            total_frames |-> th[t].tmp]],
            "reset", [Sess EXCEPT !.last_update = last_update'])
  /\ UNCHANGED << active, processed_count, latest_result, test_mode,
                  frame_number, CONFIG, api_key >>

\* ------------------------------------------------------------- end_session
\* Line 194
end_session_count(t, alone) ==
  /\ th[t].pc = "idle"
  /\ Accept(t, [Idle EXCEPT !.pc = "e_frame_number", !.req = "end",
                !.count = processed_count], alone)
  /\ UNCHANGED << session, lock, CONFIG, api_key >>

\* Line 195
end_session_frame_number(t) ==
  /\ th[t].pc = "e_frame_number"
  /\ Move(t, [th[t] EXCEPT !.pc = "r_lock", !.tmp = frame_number])
  /\ UNCHANGED << session, lock, CONFIG, api_key >>

\* ------------------------------------------------------------ upload_frame
InactiveError ==
  [status |-> "error", message |-> "No active session. Please start session first."]

\* Mutant: the inactive check is dropped and the frame is processed anyway.
Mut_upload_frame_check(t, cap, alone) ==
  /\ th[t].pc = "idle"
  /\ frame_number < cap /\ processed_count < cap
  /\ \E img \in {"valid", "notimage", "bad"} :
       Accept(t, [Idle EXCEPT !.pc = IF img = "bad" THEN "u_ex_test_mode"
                                    ELSE "u_arg_frame",
                            !.req = "upload", !.img = img], alone)
  /\ UNCHANGED << session, lock, CONFIG, api_key >>

\* Lines 217-236: the active check, then the extraction of the image bytes.
\* img: "valid" decodes to an image, "notimage" to bytes that are no image,
\* "bad" makes the extraction raise.  cap bounds the frames of a run.
upload_frame_check(t, cap, alone) ==
  /\ th[t].pc = "idle"
  /\ frame_number < cap /\ processed_count < cap
  /\ IF ~active
     THEN Accept(t, [Idle EXCEPT !.pc = "done", !.req = "upload",
                     !.resp = InactiveError], alone)
     ELSE \E img \in {"valid", "notimage", "bad"} :
            Accept(t, [Idle EXCEPT !.pc = IF img = "bad" THEN "u_ex_test_mode"
                                         ELSE "u_arg_frame",
                                 !.req = "upload", !.img = img], alone)
  /\ UNCHANGED << session, lock, CONFIG, api_key >>

\* Line 238: the extraction failed; read test_mode.
upload_frame_except_test_mode(t) ==
  /\ th[t].pc = "u_ex_test_mode"
  /\ Move(t, [th[t] EXCEPT !.pc = "u_ex_result", !.tm = test_mode])
  /\ UNCHANGED << session, lock, CONFIG, api_key >>

\* Mutant: the placeholder of a failed extraction is the empty string.
Mut_upload_frame_except_result(t) ==
  /\ th[t].pc = "u_ex_result"
  /\ Move(t, [th[t] EXCEPT !.pc = "ur_lock", !.n = frame_number + 1,
                !.result = Str("")])
  /\ UNCHANGED << session, lock, CONFIG, api_key >>

\* Line 240 (test mode) or 250: the placeholder for frame_number + 1.
upload_frame_except_result(t) ==
  /\ th[t].pc = "u_ex_result"
  /\ Move(t, [th[t] EXCEPT !.pc = "ur_lock", !.n = frame_number + 1,
                !.result = IF th[t].tm
                           THEN _generate_test_response(frame_number + 1)
                           ELSE CaptureIssue(frame_number + 1)])
  /\ UNCHANGED << session, lock, CONFIG, api_key >>

\* Line 262: the first argument of process_image.
upload_frame_arg_frame(t) ==
  /\ th[t].pc = "u_arg_frame"
  /\ Move(t, [th[t] EXCEPT !.pc = "u_arg_test_mode", !.n = frame_number + 1])
  /\ UNCHANGED << session, lock, CONFIG, api_key >>

\* Mutant: process_image has no test-mode branch.
Mut_process_image_test_mode(t) ==
  /\ th[t].pc = "u_arg_test_mode"
  /\ Move(t, [th[t] EXCEPT
                !.tm = test_mode,
                !.pc = IF api_key /\ th[t].img = "valid"
                       THEN "p_attempt" ELSE "ur_lock",
                !.result = CASE ~api_key -> NotConfigured
                             [] api_key /\ th[t].img # "valid"
                                  -> ProcessingError(th[t].n)
                             [] OTHER -> Str("")])
  /\ UNCHANGED << session, lock, CONFIG, api_key >>

\* Mutant: process_image does not check the credential before calling the API.
Mut_process_image_api_key(t) ==
  /\ th[t].pc = "u_arg_test_mode"
  /\ Move(t, [th[t] EXCEPT
                !.tm = test_mode,
                !.pc = IF ~test_mode /\ th[t].img = "valid"
                       THEN "p_attempt" ELSE "ur_lock",
                !.result = CASE test_mode -> _generate_test_response(th[t].n)
                             [] ~test_mode /\ th[t].img # "valid"
                                  -> ProcessingError(th[t].n)
                             [] OTHER -> Str("")])
  /\ UNCHANGED << session, lock, CONFIG, api_key >>

\* Line 263, then process_image up to its retry loop (lines 62-100): test
\* mode, the missing credential, and Image.open raising on bytes that are no
\* image all return a string at once.
upload_frame_arg_test_mode(t) ==
  /\ th[t].pc = "u_arg_test_mode"
  /\ Move(t, [th[t] EXCEPT
                !.tm = test_mode,
                !.pc = IF ~test_mode /\ api_key /\ th[t].img = "valid"
                       THEN "p_attempt" ELSE "ur_lock",
                !.result = CASE test_mode -> _generate_test_response(th[t].n)
                             [] ~test_mode /\ ~api_key -> NotConfigured
                             [] ~test_mode /\ api_key /\ th[t].img # "valid"
                                  -> ProcessingError(th[t].n)
                             [] OTHER -> Str("")])
  /\ UNCHANGED << session, lock, CONFIG, api_key >>

\* Line 278: what upload_frame's outer handler (276-289) records for a fault
\* that escapes the code above it.  Nothing in lines 223-274 raises past its
\* own handler, so no action of the model takes that branch.
SystemError(k) == Fmt("Q: Frame {n}\nA: System error (session continues)", k)

\* Mutant: the last failure escapes process_image, so that upload_frame's
\* outer handler turns it into its own message.
Mut_process_image_raises(t) ==
  /\ th[t].pc = "p_attempt"
  /\ \E outcome \in {"text", "empty", "fail"} :
       CASE outcome = "text" ->
              \E x \in ApiTexts :
                Move(t, [th[t] EXCEPT !.pc = "ur_lock", !.calls = @ + 1,
                           !.result = x])
         [] outcome = "empty" ->
              Move(t, [th[t] EXCEPT !.pc = "ur_lock", !.calls = @ + 1,
                         !.result = NoResponse(th[t].n)])
         [] OTHER ->
              IF th[t].attempt < CONFIG.max_retries - 1
              THEN Move(t, [th[t] EXCEPT !.pc = "p_sleep", !.calls = @ + 1])
              ELSE Move(t, [th[t] EXCEPT !.pc = "ur_lock", !.calls = @ + 1,
                              !.result = SystemError(frame_number + 1)])
  /\ UNCHANGED << session, lock, CONFIG, api_key >>

\* Mutant: the loop gives up one attempt early.
Mut_process_image_attempt(t) ==
  /\ th[t].pc = "p_attempt"
  /\ \E outcome \in {"text", "empty", "fail"} :
       CASE outcome = "text" ->
              \E x \in ApiTexts :
                Move(t, [th[t] EXCEPT !.pc = "ur_lock", !.calls = @ + 1,
                           !.result = x])
         [] outcome = "empty" ->
              Move(t, [th[t] EXCEPT !.pc = "ur_lock", !.calls = @ + 1,
                         !.result = NoResponse(th[t].n)])
         [] OTHER ->
              IF th[t].attempt < CONFIG.max_retries - 2
              THEN Move(t, [th[t] EXCEPT !.pc = "p_sleep", !.calls = @ + 1])
              ELSE Move(t, [th[t] EXCEPT !.pc = "ur_lock", !.calls = @ + 1,
                              !.result = ProcessingError(th[t].n)])
  /\ UNCHANGED << session, lock, CONFIG, api_key >>

\* Lines 103-117 and 121-123: one call of the external API.  It answers with
\* text, with no text, or fails; the last failure is re-raised and caught by
\* process_image's own handler.
process_image_attempt(t) ==
  /\ th[t].pc = "p_attempt"
  /\ \E outcome \in {"text", "empty", "fail"} :
       CASE outcome = "text" ->
              \E x \in ApiTexts :
                Move(t, [th[t] EXCEPT !.pc = "ur_lock", !.calls = @ + 1,
                           !.result = x])
         [] outcome = "empty" ->
              Move(t, [th[t] EXCEPT !.pc = "ur_lock", !.calls = @ + 1,
                         !.result = NoResponse(th[t].n)])
         [] OTHER ->
              IF th[t].attempt < CONFIG.max_retries - 1
              THEN Move(t, [th[t] EXCEPT !.pc = "p_sleep", !.calls = @ + 1])
              ELSE Move(t, [th[t] EXCEPT !.pc = "ur_lock", !.calls = @ + 1,
                              !.result = ProcessingError(th[t].n)])
  /\ UNCHANGED << session, lock, CONFIG, api_key >>

\* Line 115: time.sleep(retry_delay), then the next iteration.
process_image_sleep(t) ==
  /\ th[t].pc = "p_sleep"
  /\ Move(t, [th[t] EXCEPT !.pc = "p_attempt", !.sleeps = @ + 1,
                !.attempt = @ + 1])
  /\ UNCHANGED << session, lock, CONFIG, api_key >>

\* Lines 245 / 255 / 272: the response reads processed_count ...
upload_frame_resp_processed_count(t) ==
  /\ th[t].pc = "u_resp_processed_count"
  /\ Move(t, [th[t] EXCEPT !.pc = "u_resp_frame_number", !.tmp = processed_count])
  /\ UNCHANGED << session, lock, CONFIG, api_key >>

\* ... and lines 246 / 256 / 273: frame_number.
upload_frame_resp_frame_number(t) ==
  /\ th[t].pc = "u_resp_frame_number"
  /\ Move(t, [th[t] EXCEPT !.pc = "done",
                !.resp = [status |-> "success", result |-> th[t].result,
                          processed_count |-> th[t].tmp,
                          frame_number |-> frame_number]])
  /\ UNCHANGED << session, lock, CONFIG, api_key >>

\* ------------------------------------- get_latest_result, session_status
\* Line 296
get_latest_result_active(t, alone) ==
  /\ th[t].pc = "idle"
  /\ Accept(t, [Idle EXCEPT !.pc = "l_latest_result", !.req = "latest",
                !.snaps = Overlapped(t),
                !.resp = [active |-> active, latest_result |-> Str(""),
                          processed_count |-> 0, frame_number |-> 0,
                          last_update |-> NoneTime]], alone)
  /\ UNCHANGED << session, lock, CONFIG, api_key >>

\* Line 297
get_latest_result_latest_result(t) ==
  /\ th[t].pc = "l_latest_result"
  /\ Move(t, [th[t] EXCEPT !.pc = "l_processed_count",
                !.resp.latest_result = latest_result])
  /\ UNCHANGED << session, lock, CONFIG, api_key >>

\* Line 298
get_latest_result_processed_count(t) ==
  /\ th[t].pc = "l_processed_count"
  /\ Move(t, [th[t] EXCEPT !.pc = "l_frame_number",
                !.resp.processed_count = processed_count])
  /\ UNCHANGED << session, lock, CONFIG, api_key >>

\* Line 299
get_latest_result_frame_number(t) ==
  /\ th[t].pc = "l_frame_number"
  /\ Move(t, [th[t] EXCEPT !.pc = "l_last_update",
                !.resp.frame_number = frame_number])
  /\ UNCHANGED << session, lock, CONFIG, api_key >>

\* Line 300
get_latest_result_last_update(t) ==
  /\ th[t].pc = "l_last_update"
  /\ Move(t, [th[t] EXCEPT !.pc = "done", !.resp.last_update = last_update])
  /\ UNCHANGED << session, lock, CONFIG, api_key >>

\* Line 308
session_status_active(t, alone) ==
  /\ th[t].pc = "idle"
  /\ Accept(t, [Idle EXCEPT !.pc = "t_processed_count", !.req = "status",
                !.snaps = Overlapped(t),
                !.resp = [active |-> active, processed_count |-> 0,
                          frame_number |-> 0, test_mode |-> FALSE]], alone)
  /\ UNCHANGED << session, lock, CONFIG, api_key >>

\* Line 309
session_status_processed_count(t) ==
  /\ th[t].pc = "t_processed_count"
  /\ Move(t, [th[t] EXCEPT !.pc = "t_frame_number",
                !.resp.processed_count = processed_count])
  /\ UNCHANGED << session, lock, CONFIG, api_key >>

\* Line 310
session_status_frame_number(t) ==
  /\ th[t].pc = "t_frame_number"
  /\ Move(t, [th[t] EXCEPT !.pc = "t_test_mode",
                !.resp.frame_number = frame_number])
  /\ UNCHANGED << session, lock, CONFIG, api_key >>

\* Line 311
session_status_test_mode(t) ==
  /\ th[t].pc = "t_test_mode"
  /\ Move(t, [th[t] EXCEPT !.pc = "done", !.resp.test_mode = test_mode])
  /\ UNCHANGED << session, lock, CONFIG, api_key >>

\* ----------------------------------------------------------- update_config
\* CONFIG[k] = v, adding the key when the dict has none.
SetKey(d, k, v) == [x \in DOMAIN d \cup {k} |-> IF x = k THEN v ELSE d[x]]

\* Lines 319-320 failing and 335-338: a request that is no POST, or whose
\* body does not parse, is answered with the unchanged CONFIG.
update_config_reject(t, alone) ==
  /\ th[t].pc = "idle"
  /\ Accept(t, [Idle EXCEPT !.pc = "done", !.req = "config",
                !.resp = [status |-> "success", config |-> CONFIG]], alone)
  /\ UNCHANGED << session, lock, CONFIG, api_key >>

\* Lines 321-322 of a POST: the key is absent, holds an integer, or holds a
\* value int() raises on (the handler then skips to line 333).
update_config_capture_interval(t, alone) ==
  /\ th[t].pc = "idle"
  /\ \/ /\ Accept(t, [Idle EXCEPT !.pc = "c_test_mode", !.req = "config"], alone)
        /\ CONFIG' = CONFIG
     \/ \E v \in IntervalInputs :
          /\ CONFIG' = SetKey(CONFIG, "capture_interval", ClampInterval(v))
          /\ Accept(t, [Idle EXCEPT !.pc = "c_test_mode", !.req = "config",
                           !.supplied = {"capture_interval"}, !.arg = v], alone)
     \/ /\ Accept(t, [Idle EXCEPT !.pc = "c_response", !.req = "config"], alone)
        /\ CONFIG' = CONFIG
  /\ UNCHANGED << session, lock, api_key >>

\* Lines 323-324
update_config_test_mode(t) ==
  /\ th[t].pc = "c_test_mode"
  /\ \/ /\ CONFIG' = CONFIG
        /\ Move(t, [th[t] EXCEPT !.pc = "c_quality"])
     \/ \E b \in BOOLEAN :
          /\ CONFIG' = SetKey(CONFIG, "test_mode", b)
          /\ Move(t, [th[t] EXCEPT !.pc = "c_quality",
                         !.supplied = @ \cup {"test_mode"}])
  /\ UNCHANGED << session, lock, api_key >>

\* Mutant: the quality value is stored under the capture_interval key.
Mut_update_config_quality(t) ==
  /\ th[t].pc = "c_quality"
  /\ \/ /\ CONFIG' = CONFIG
        /\ Move(t, [th[t] EXCEPT !.pc = "c_response"])
     \/ \E q \in QualityInputs :
          /\ CONFIG' = SetKey(CONFIG, "capture_interval", q)
          /\ Move(t, [th[t] EXCEPT !.pc = "c_response",
                         !.supplied = @ \cup {"quality"}])
  /\ UNCHANGED << session, lock, api_key >>

\* Lines 325-326: float() may raise as int() does.
update_config_quality(t) ==
  /\ th[t].pc = "c_quality"
  /\ \/ /\ CONFIG' = CONFIG
        /\ Move(t, [th[t] EXCEPT !.pc = "c_response"])
     \/ \E q \in QualityInputs :
          /\ CONFIG' = SetKey(CONFIG, "quality", q)
          /\ Move(t, [th[t] EXCEPT !.pc = "c_response",
                         !.supplied = @ \cup {"quality"}])
  /\ UNCHANGED << session, lock, api_key >>

\* Lines 328-331 or 335-338
update_config_response(t) ==
  /\ th[t].pc = "c_response"
  /\ Move(t, [th[t] EXCEPT !.pc = "done",
                !.resp = [status |-> "success", config |-> CONFIG]])
  /\ UNCHANGED << session, lock, CONFIG, api_key >>

\* -------------------------------------------------------------- the server
\* The response is sent; the thread is free for the next request.
Return(t) ==
  /\ th[t].pc = "done"
  /\ Move(t, Idle)
  /\ UNCHANGED << session, lock, CONFIG, api_key >>

\* Requests are served by concurrent threads.
Next ==
  \E t \in Threads :
     \/ start_session_body(t, FALSE)
     \/ start_session_active(t)
     \/ start_session_processed_count(t)
     \/ start_session_frame_number(t)
     \/ start_session_test_mode(t)
     \/ start_session_latest_result(t)
     \/ start_session_last_update(t)
     \/ end_session_count(t, FALSE)
     \/ end_session_frame_number(t)
     \/ reset_active(t)
     \/ reset_processed_count(t)
     \/ reset_frame_number(t)
     \/ reset_latest_result(t)
     \/ reset_last_update(t)
     \/ upload_frame_check(t, MaxFrames, FALSE)
     \/ upload_frame_except_test_mode(t)
     \/ upload_frame_except_result(t)
     \/ upload_frame_arg_frame(t)
     \/ upload_frame_arg_test_mode(t)
     \/ process_image_attempt(t)
     \/ process_image_sleep(t)
     \/ update_result_lock(t)
     \/ update_result_processed_count(t)
     \/ update_result_frame_load(t)
     \/ update_result_frame_number(t)
     \/ update_result_latest_result(t)
     \/ update_result_last_update(t)
     \/ upload_frame_resp_processed_count(t)
     \/ upload_frame_resp_frame_number(t)
     \/ get_latest_result_active(t, FALSE)
     \/ get_latest_result_latest_result(t)
     \/ get_latest_result_processed_count(t)
     \/ get_latest_result_frame_number(t)
     \/ get_latest_result_last_update(t)
     \/ session_status_active(t, FALSE)
     \/ session_status_processed_count(t)
     \/ session_status_frame_number(t)
     \/ session_status_test_mode(t)
     \/ update_config_reject(t, FALSE)
     \/ update_config_capture_interval(t, FALSE)
     \/ update_config_test_mode(t)
     \/ update_config_quality(t)
     \/ update_config_response(t)
     \/ Return(t)

Spec == Init /\ [][Next]_vars

\* One request at a time: a request starts only when no other is in flight.
SeqNext ==
  \E t \in Threads :
     \/ start_session_body(t, TRUE)
     \/ start_session_active(t)
     \/ start_session_processed_count(t)
     \/ start_session_frame_number(t)
     \/ start_session_test_mode(t)
     \/ start_session_latest_result(t)
     \/ start_session_last_update(t)
     \/ end_session_count(t, TRUE)
     \/ end_session_frame_number(t)
     \/ reset_active(t)
     \/ reset_processed_count(t)
     \/ reset_frame_number(t)
     \/ reset_latest_result(t)
     \/ reset_last_update(t)
     \/ upload_frame_check(t, MaxSeqFrames, TRUE)
     \/ upload_frame_except_test_mode(t)
     \/ upload_frame_except_result(t)
     \/ upload_frame_arg_frame(t)
     \/ upload_frame_arg_test_mode(t)
     \/ process_image_attempt(t)
     \/ process_image_sleep(t)
     \/ update_result_lock(t)
     \/ update_result_processed_count(t)
     \/ update_result_frame_load(t)
     \/ update_result_frame_number(t)
     \/ update_result_latest_result(t)
     \/ update_result_last_update(t)
     \/ upload_frame_resp_processed_count(t)
     \/ upload_frame_resp_frame_number(t)
     \/ get_latest_result_active(t, TRUE)
     \/ get_latest_result_latest_result(t)
     \/ get_latest_result_processed_count(t)
     \/ get_latest_result_frame_number(t)
     \/ get_latest_result_last_update(t)
     \/ session_status_active(t, TRUE)
     \/ session_status_processed_count(t)
     \/ session_status_frame_number(t)
     \/ session_status_test_mode(t)
     \/ update_config_reject(t, TRUE)
     \/ update_config_capture_interval(t, TRUE)
     \/ update_config_test_mode(t)
     \/ update_config_quality(t)
     \/ update_config_response(t)
     \/ Return(t)

SeqSpec == Init /\ [][SeqNext]_vars

\* A step of the request thread t is serving: every action but the arrival of
\* a request.
Run(t) ==
  \/ start_session_active(t)
  \/ start_session_processed_count(t)
  \/ start_session_frame_number(t)
  \/ start_session_test_mode(t)
  \/ start_session_latest_result(t)
  \/ start_session_last_update(t)
  \/ end_session_frame_number(t)
  \/ reset_active(t)
  \/ reset_processed_count(t)
  \/ reset_frame_number(t)
  \/ reset_latest_result(t)
  \/ reset_last_update(t)
  \/ upload_frame_except_test_mode(t)
  \/ upload_frame_except_result(t)
  \/ upload_frame_arg_frame(t)
  \/ upload_frame_arg_test_mode(t)
  \/ process_image_attempt(t)
  \/ process_image_sleep(t)
  \/ update_result_lock(t)
  \/ update_result_processed_count(t)
  \/ update_result_frame_load(t)
  \/ update_result_frame_number(t)
  \/ update_result_latest_result(t)
  \/ update_result_last_update(t)
  \/ upload_frame_resp_processed_count(t)
  \/ upload_frame_resp_frame_number(t)
  \/ get_latest_result_latest_result(t)
  \/ get_latest_result_processed_count(t)
  \/ get_latest_result_frame_number(t)
  \/ get_latest_result_last_update(t)
  \/ session_status_processed_count(t)
  \/ session_status_frame_number(t)
  \/ session_status_test_mode(t)
  \/ update_config_test_mode(t)
  \/ update_config_quality(t)
  \/ update_config_response(t)
  \/ Return(t)

\* The requests urls.py routes (lines 7-11), which are those that read or
\* write the session: Next without update_config, which no URL reaches, and
\* which touches CONFIG alone, takes no lock and has no loop.
FairNext ==
  \E t \in Threads :
     \/ start_session_body(t, FALSE)
     \/ start_session_active(t)
     \/ start_session_processed_count(t)
     \/ start_session_frame_number(t)
     \/ start_session_test_mode(t)
     \/ start_session_latest_result(t)
     \/ start_session_last_update(t)
     \/ end_session_count(t, FALSE)
     \/ end_session_frame_number(t)
     \/ reset_active(t)
     \/ reset_processed_count(t)
     \/ reset_frame_number(t)
     \/ reset_latest_result(t)
     \/ reset_last_update(t)
     \/ upload_frame_check(t, MaxFrames, FALSE)
     \/ upload_frame_except_test_mode(t)
     \/ upload_frame_except_result(t)
     \/ upload_frame_arg_frame(t)
     \/ upload_frame_arg_test_mode(t)
     \/ process_image_attempt(t)
     \/ process_image_sleep(t)
     \/ update_result_lock(t)
     \/ update_result_processed_count(t)
     \/ update_result_frame_load(t)
     \/ update_result_frame_number(t)
     \/ update_result_latest_result(t)
     \/ update_result_last_update(t)
     \/ upload_frame_resp_processed_count(t)
     \/ upload_frame_resp_frame_number(t)
     \/ get_latest_result_active(t, FALSE)
     \/ get_latest_result_latest_result(t)
     \/ get_latest_result_processed_count(t)
     \/ get_latest_result_frame_number(t)
     \/ get_latest_result_last_update(t)
     \/ session_status_active(t, FALSE)
     \/ session_status_processed_count(t)
     \/ session_status_frame_number(t)
     \/ session_status_test_mode(t)
     \/ Return(t)

\* The concurrent server under a fair scheduler: each request runs on a
\* thread of its own, which takes its next step whenever that step stays
\* possible (an API call returns or fails, a sleep ends, a free lock is
\* granted).  Requests themselves may stop arriving at any time.
FairSpec == Init /\ [][FairNext]_vars /\ \A t \in Threads : WF_vars(Run(t))

\* ------------------------------------------------------------ properties
Uploading(t) == th[t].req = "upload"
UploadDone(t) == th[t].req = "upload" /\ th[t].pc = "done"
UploadOk(t) == UploadDone(t) /\ th[t].resp.status = "success"

\* t is between the two counter writes of a store operation.
BetweenCounters(t) ==
  th[t].pc \in {"s_frame_number", "ur_frame_load", "ur_frame_number",
                "r_frame_number"}

\* t is inside the write sequence of start_session, update_result or reset.
Writing(t) ==
  th[t].pc \in {"s_processed_count", "s_frame_number", "s_test_mode",
                "s_latest_result", "s_last_update",
                "ur_processed_count", "ur_frame_load", "ur_frame_number",
                "ur_latest_result", "ur_last_update",
                "r_processed_count", "r_frame_number", "r_latest_result",
                "r_last_update"}

\* C1: with requests served one after another (start, uploads, end, in any
\* number and order), processed_count equals frame_number in every state
\* outside the two adjacent counter writes of a store operation.
C1_CountersAgree ==
  (\A t \in Threads : ~BetweenCounters(t)) => processed_count = frame_number

C1_Witness ==
  /\ processed_count = 3 /\ frame_number = 3
  /\ \E t \in Threads : UploadOk(t)

\* The finished poll of t returned exactly the fields of store state s.
PayloadOf(t, s) ==
  IF th[t].req = "latest"
  THEN /\ th[t].resp.active = s.active
       /\ th[t].resp.latest_result = s.latest_result
       /\ th[t].resp.processed_count = s.processed_count
       /\ th[t].resp.frame_number = s.frame_number
       /\ th[t].resp.last_update = s.last_update
  ELSE /\ th[t].resp.active = s.active
       /\ th[t].resp.processed_count = s.processed_count
       /\ th[t].resp.frame_number = s.frame_number
       /\ th[t].resp.test_mode = s.test_mode

\* C2: a get_latest_result or session_status poll that overlaps nothing but
\* update_result calls returns the store's state as it was before or after one
\* of them (snaps holds those states).
C2_PollIsSnapshot ==
  \A t \in Threads :
    ( /\ th[t].req \in {"latest", "status"} /\ th[t].pc = "done"
      /\ \A e \in th[t].snaps : e.op \in {"before", "update_result"} )
    => \E e \in th[t].snaps : PayloadOf(t, e.s)

\* C3: start_session is atomic with update_result and reset: whenever no
\* store operation is under way, the session is as some serial order of the
\* operations leaves it: the counters agree, and the start banner is the
\* latest result only in an active session with both counters 0.
C3_StartIsAtomic ==
  (\A t \in Threads : ~Writing(t)) =>
    /\ processed_count = frame_number
    /\ latest_result = SessionStarted => active /\ processed_count = 0

\* C4: an upload_frame that finds the session inactive answers at once with
\* the 'No active session' error, writes no session field and calls no API.
C4_InactiveUpload ==
  /\ [][ \A t \in Threads :
           (th[t].pc = "idle" /\ th'[t].req = "upload" /\ ~active) =>
             /\ th'[t].pc = "done"
             /\ th'[t].resp = InactiveError
             /\ th'[t].calls = 0
             /\ UNCHANGED session ]_vars
  /\ [](\A t \in Threads :
          (Uploading(t) /\ th[t].resp = InactiveError) =>
             th[t].pc = "done" /\ th[t].calls = 0)

C4_Witness ==
  /\ latest_result = SessionEnded
  /\ \E t \in Threads : UploadDone(t) /\ th[t].resp = InactiveError

\* The placeholder of a failed extraction for the frame t labelled.
C5_Placeholder(t) ==
  IF test_mode THEN Str(test_responses[(th[t].n % 5) + 1])
  ELSE [text |-> "Q: Frame {n}\nA: Image capture issue", n |-> th[t].n]

\* C5: with requests served one after another, an upload in an active session
\* whose image cannot be extracted answers 'success' with a non-empty
\* placeholder (a canned response in test mode, 'Image capture issue'
\* otherwise), and its update_result adds one to each counter and stores the
\* placeholder as latest_result.
C5_BadImage ==
  /\ [](\A t \in Threads :
          (UploadDone(t) /\ th[t].img = "bad") =>
             /\ th[t].resp.status = "success"
             /\ th[t].resp.result.text # ""
             /\ th[t].resp.result = C5_Placeholder(t)
             /\ latest_result = th[t].resp.result
             /\ th[t].resp.processed_count = processed_count
             /\ th[t].resp.frame_number = frame_number)
  /\ [][ \A t \in Threads :
           (th[t].pc = "ur_last_update" /\ th[t].img = "bad"
              /\ th'[t].pc # "ur_last_update") =>
             /\ processed_count' = committed.processed_count + 1
             /\ frame_number' = committed.frame_number + 1
             /\ latest_result' = th[t].result ]_vars

C5_Witness ==
  \E t \in Threads :
    /\ UploadDone(t) /\ th[t].img = "bad"
    /\ th[t].resp.result \in CannedResults
    /\ processed_count = 2 /\ frame_number = 2

\* test_responses[i], counting from 0 as the code does.
C6_Entry(i) == Str(test_responses[i + 1])

\* C6 as amended: in a test-mode session served one request after another, the
\* uploads numbered 1, 2 and 3 return entries 1, 2 and 3 of the list (frame
\* number mod 5, counting entries from 0), three distinct strings;
\* processed_count is the upload's number, and end_session reports the count
\* the store held before its reset.
C6_Scenario ==
  /\ [](\A t \in Threads :
          (UploadOk(t) /\ test_mode /\ th[t].resp.frame_number \in 1..3) =>
             /\ th[t].resp.result = C6_Entry(th[t].resp.frame_number % 5)
             /\ \A k \in 1..3 : k # th[t].resp.frame_number =>
                                  C6_Entry(k % 5) # th[t].resp.result
             /\ th[t].resp.processed_count = th[t].resp.frame_number
             /\ processed_count = th[t].resp.frame_number)
  /\ [][ \A t \in Threads :
           (th[t].pc = "r_last_update" /\ th'[t].pc = "done") =>
             /\ th'[t].resp.status = "success"
             /\ th'[t].resp.processed_count = committed.processed_count
             /\ th'[t].resp.total_frames = committed.frame_number ]_vars

C6_Witness ==
  \E t \in Threads :
    /\ th[t].req = "end" /\ th[t].pc = "done"
    /\ test_mode
    /\ th[t].resp.processed_count = 3
    /\ committed.latest_result = SessionEnded

\* C6 as stated: the uploads numbered 1, 2 and 3 of a test-mode session
\* return entries 0, 1 and 2 of the list.
C6_Original ==
  \A t \in Threads :
    (UploadOk(t) /\ test_mode /\ th[t].resp.frame_number \in 1..3) =>
       th[t].resp.result = C6_Entry(th[t].resp.frame_number - 1)

\* C7: CONFIG['capture_interval'] is never below 2; update_config stores a
\* supplied integer v as max(2, v).
C7_IntervalClamped ==
  /\ [](CONFIG.capture_interval >= 2)
  /\ [][ \A t \in Threads :
           (th[t].pc = "idle" /\ th'[t].req = "config"
              /\ "capture_interval" \in th'[t].supplied) =>
             CONFIG'.capture_interval =
               (IF th'[t].arg >= 2 THEN th'[t].arg ELSE 2) ]_vars

C7_Witness ==
  \E t \in Threads :
    /\ th[t].req = "config" /\ "capture_interval" \in th[t].supplied
    /\ th[t].arg = 1
    /\ CONFIG.capture_interval = 2

\* t is an upload that has generated its test response.
C8_Generated(t) ==
  /\ Uploading(t) /\ th[t].tm
  /\ th[t].pc \notin {"idle", "u_ex_result", "u_arg_frame", "u_arg_test_mode"}

\* C8: the test response for frame n is the list entry n mod 5 and equals the
\* one for n + 5; the step that generates it writes nothing.
C8_GeneratorPure ==
  /\ [](\A t \in Threads :
          C8_Generated(t) =>
             /\ th[t].result = Str(test_responses[(th[t].n % 5) + 1])
             /\ _generate_test_response(th[t].n + 5) = th[t].result)
  /\ [][ \A t \in Threads :
           (th[t].pc \in {"u_ex_result", "u_arg_test_mode"}
              /\ th'[t].pc # th[t].pc) =>
             UNCHANGED << session, lock, CONFIG >> ]_vars

C8_Witness ==
  \E t \in Threads :
    /\ C8_Generated(t) /\ th[t].pc = "done"
    /\ th[t].n = 6
    /\ th[t].result = Str("Q: Question 2\nA: Option B")

\* t has left the retry loop and is about to record its result.
C9_LeftLoop(t) == th[t].pc = "ur_lock" /\ th[t].calls > 0

\* C9: one process_image call makes at most max_retries API calls, stops at
\* the first that returns, sleeps once after each failed call but the last,
\* and makes exactly max_retries calls when all fail.
C9_Retry ==
  \A t \in Threads :
    /\ th[t].calls <= max_retries
    /\ th[t].pc = "p_attempt" =>
         /\ th[t].calls = th[t].sleeps
         /\ th[t].calls < max_retries
         /\ th[t].result = Str("")
    /\ th[t].pc = "p_sleep" =>
         /\ th[t].calls = th[t].sleeps + 1
         /\ th[t].calls < max_retries
         /\ th[t].result = Str("")
    /\ C9_LeftLoop(t) =>
         /\ th[t].sleeps = th[t].calls - 1
         /\ (th[t].result = ProcessingError(th[t].n)) => th[t].calls = max_retries
    /\ (th[t].calls = 0 /\ th[t].pc # "p_attempt") => th[t].sleeps = 0

C9_Witness ==
  \E t \in Threads :
    /\ C9_LeftLoop(t)
    /\ th[t].calls = 3 /\ th[t].sleeps = 2
    /\ th[t].result = ProcessingError(th[t].n)

\* t's process_image ran outside test mode with a credential and got no
\* answer: the bytes were no image, or every attempt failed.
C10_Degraded(t) ==
  /\ Uploading(t) /\ ~th[t].tm /\ api_key
  /\ \/ th[t].img = "notimage"
     \/ /\ th[t].calls = max_retries
        /\ th[t].result \notin ApiTexts \cup {NoResponse(th[t].n)}

\* C10: process_image always hands upload_frame a string: when every attempt
\* failed (or the bytes are no image) it is the 'Processing error' text for
\* the frame; served one request after another, upload_frame then records it
\* once (each counter + 1), answers 'success' and leaves the session active.
C10_NeverRaises ==
  /\ [](\A t \in Threads :
          /\ (th[t].pc = "ur_lock" /\ C10_Degraded(t)) =>
               th[t].result = ProcessingError(th[t].n)
          /\ th[t].pc = "ur_lock" => th[t].result.text # ""
          /\ (UploadDone(t) /\ th[t].result = ProcessingError(th[t].n)) =>
               /\ th[t].resp.status = "success"
               /\ th[t].resp.result = th[t].result
               /\ latest_result = th[t].result
               /\ th[t].resp.frame_number = th[t].n
               /\ frame_number = th[t].n
               /\ th[t].resp.processed_count = processed_count
               /\ active)
  /\ [][ \A t \in Threads :
           (th[t].pc = "ur_last_update" /\ th'[t].pc # "ur_last_update"
              /\ th[t].result = ProcessingError(th[t].n)) =>
             /\ processed_count' = committed.processed_count + 1
             /\ frame_number' = committed.frame_number + 1
             /\ latest_result' = th[t].result
             /\ active' /\ committed.active ]_vars

C10_Witness ==
  \E t \in Threads :
    /\ UploadDone(t) /\ th[t].img = "valid"
    /\ th[t].result = ProcessingError(2)
    /\ th[t].resp.status = "success"
    /\ processed_count = 2 /\ active

\* C11: no step of an upload_frame request, its update_result included and
\* whatever the outcome, changes active or test_mode; served one request after
\* another, an upload that passed the active check finds the session active
\* at every later step and when it answers.
C11_UploadKeepsMode ==
  /\ [][ \A t \in Threads :
           ((th[t].req = "upload" \/ th'[t].req = "upload") /\ th'[t] # th[t]) =>
             UNCHANGED << active, test_mode >> ]_vars
  /\ [](\A t \in Threads :
          (Uploading(t) /\ th[t].resp # InactiveError) => active)

C11_Witness ==
  \E t \in Threads :
    /\ UploadOk(t) /\ th[t].img = "bad"
    /\ th[t].result = CaptureIssue(3)
    /\ committed.latest_result = CaptureIssue(3)
    /\ active /\ ~test_mode /\ frame_number = 3

\* A start_session is writing the session.
C12_Starting == \E u \in Threads : th[u].req = "start" /\ th[u].pc # "done"

\* C12: the counts end_session returns are the counts the store holds when its
\* reset takes the lock: every update_result that finished before the reset
\* is included, also when uploads run concurrently with end_session (no
\* start_session being under way).
C12_EndReportsCounts ==
  [][ \A t \in Threads :
        (th[t].pc = "r_lock" /\ th'[t].pc = "r_processed_count"
           /\ ~C12_Starting) =>
          /\ th[t].count = processed_count
          /\ th[t].tmp = frame_number ]_vars

\* C13: with requests served one after another, while the session's test_mode
\* is true no upload is inside the API retry loop or has made an API call,
\* whatever its image data, and every result update_result records is one of
\* the five canned strings.
C13_TestModeOffline ==
  /\ [](\A t \in Threads :
          test_mode =>
            /\ th[t].pc \notin {"p_attempt", "p_sleep"}
            /\ th[t].calls = 0
            /\ (Uploading(t) /\ th[t].pc \in {"ur_lock", "done"}
                  /\ th[t].resp # InactiveError) =>
                 th[t].result \in CannedResults)
  /\ []((test_mode /\ active /\ \A t \in Threads : ~Writing(t)) =>
          latest_result \in CannedResults \cup {SessionStarted})
  /\ [][ \A t \in Threads :
           (th[t].pc = "ur_latest_result" /\ th'[t].pc = "ur_last_update"
              /\ test_mode) =>
             latest_result' \in CannedResults ]_vars

C13_Witness ==
  \E t \in Threads :
    /\ UploadOk(t) /\ th[t].img = "valid" /\ api_key
    /\ test_mode /\ active
    /\ latest_result \in CannedResults
    /\ th[t].resp.result = latest_result
    /\ processed_count = 2

\* t is an upload outside test mode whose image data could be extracted,
\* with no API credential configured.
C14_NoKey(t) ==
  /\ Uploading(t) /\ ~api_key /\ ~th[t].tm /\ th[t].img \in {"valid", "notimage"}
  /\ th[t].resp # InactiveError

\* C14: with no API credential and outside test mode, an upload with
\* extractable image data makes no API call and no retry, answers 'success'
\* with the 'not configured' text as its result, and (served one request after
\* another) its update_result stores that text as latest_result and adds one
\* to each counter.
C14_NotConfigured ==
  /\ [](\A t \in Threads :
          /\ ~api_key =>
               /\ th[t].pc \notin {"p_attempt", "p_sleep"}
               /\ th[t].calls = 0 /\ th[t].sleeps = 0
          /\ (C14_NoKey(t) /\ th[t].pc = "ur_lock") => th[t].result = NotConfigured
          /\ (C14_NoKey(t) /\ th[t].pc = "done") =>
               /\ th[t].resp.status = "success"
               /\ th[t].resp.result = NotConfigured
               /\ latest_result = NotConfigured
               /\ th[t].resp.processed_count = processed_count
               /\ th[t].resp.frame_number = frame_number)
  /\ [][ \A t \in Threads :
           (C14_NoKey(t) /\ th[t].pc = "ur_last_update"
              /\ th'[t].pc # "ur_last_update") =>
             /\ processed_count' = committed.processed_count + 1
             /\ frame_number' = committed.frame_number + 1
             /\ latest_result' = NotConfigured ]_vars

C14_Witness ==
  \E t \in Threads :
    /\ C14_NoKey(t) /\ th[t].pc = "done" /\ th[t].img = "valid"
    /\ th[t].resp.result = NotConfigured
    /\ th[t].resp.processed_count = 2 /\ th[t].resp.frame_number = 2
    /\ active

\* The keys of CONFIG whose value differs across the step.
C15_Changed == {k \in DOMAIN CONFIG' : k \notin DOMAIN CONFIG \/ CONFIG'[k] # CONFIG[k]}

\* C15: update_config always answers status 'success' with the whole current
\* CONFIG (a request that is no POST or has a bad body or value included); a
\* step of it changes only keys the request supplied among capture_interval,
\* test_mode and quality; max_retries and retry_delay keep their values and
\* no session field is written.
C15_ConfigOnly ==
  /\ [](\A t \in Threads :
          (th[t].req = "config" /\ th[t].pc = "done") =>
            /\ th[t].resp.status = "success"
            /\ th[t].resp.config = CONFIG)
  /\ [](CONFIG.max_retries = max_retries /\ CONFIG.retry_delay = 1)
  /\ [][ \A t \in Threads :
           ((th[t].req = "config" \/ th'[t].req = "config") /\ th'[t] # th[t]) =>
             /\ UNCHANGED << session, lock >>
             /\ C15_Changed \subseteq
                  th'[t].supplied \cap {"capture_interval", "test_mode", "quality"}
         ]_vars

C15_Witness ==
  \E t \in Threads :
    /\ th[t].req = "config" /\ th[t].pc = "done"
    /\ th[t].supplied = {"test_mode", "quality"}
    /\ th[t].resp.config = CONFIG
    /\ CONFIG.test_mode /\ CONFIG.capture_interval = 2
    /\ "quality" \in DOMAIN CONFIG
    /\ active /\ processed_count = 1

\* The session a successful start_session with effective test mode tm leaves,
\* last_update aside.
C16_Started(tm) ==
  [active |-> TRUE, processed_count |-> 0, latest_result |-> SessionStarted,
   last_update |-> NoneTime, test_mode |-> tm, frame_number |-> 0]

\* C16: served one request after another, a successful start_session leaves
\* the session active with both counters 0, the start banner and the test
\* mode it returns, whatever the state before it (so a second identical call
\* changes nothing but last_update); the test mode is the request's when the
\* body gives one, and CONFIG['test_mode'] as the request arrives otherwise.
C16_StartIdempotent ==
  /\ [](\A t \in Threads :
          (th[t].req = "start" /\ th[t].pc = "done"
             /\ th[t].resp.status = "success") =>
            /\ [Sess EXCEPT !.last_update = NoneTime] = C16_Started(th[t].resp.test_mode)
            /\ "test_mode" \in th[t].supplied => th[t].resp.test_mode = (th[t].arg = 1)
            /\ "test_mode" \notin th[t].supplied =>
                 th[t].resp.test_mode = CONFIG.test_mode)
  /\ [][ \A t \in Threads :
           (th[t].pc = "idle" /\ th'[t].req = "start"
              /\ "test_mode" \notin th'[t].supplied /\ th'[t].pc # "done") =>
             th'[t].tm = CONFIG.test_mode ]_vars
  /\ [][ \A t \in Threads :
           (th[t].pc = "s_last_update" /\ th'[t].pc = "done") =>
             /\ [Sess' EXCEPT !.last_update = NoneTime] = C16_Started(th[t].tm)
             /\ [committed EXCEPT !.last_update = NoneTime] = C16_Started(th[t].tm)
                  => [Sess' EXCEPT !.last_update = NoneTime]
                       = [committed EXCEPT !.last_update = NoneTime] ]_vars

C16_Witness ==
  \E t \in Threads :
    /\ th[t].req = "start" /\ th[t].pc = "s_last_update"
    /\ th[t].supplied = {} /\ CONFIG.test_mode /\ test_mode
    /\ committed.active /\ ~committed.test_mode
    /\ committed.processed_count = 2 /\ committed.frame_number = 2
    /\ processed_count = 0 /\ frame_number = 0
    /\ latest_result = SessionStarted

\* C17: processed_count and frame_number are never negative, and a step that
\* changes one of them either adds exactly 1 to it (update_result) or sets it
\* to 0 (start_session, reset), also when requests run concurrently.
C17_CounterSteps ==
  /\ [](processed_count >= 0 /\ frame_number >= 0)
  /\ [][ /\ processed_count' \in {processed_count, processed_count + 1, 0}
         /\ frame_number' \in {frame_number, frame_number + 1, 0} ]_vars

\* The pcs at which a thread holds the session lock.
C18_Locked ==
  {"ur_processed_count", "ur_frame_load", "ur_frame_number", "ur_latest_result",
   "ur_last_update", "r_processed_count", "r_frame_number", "r_latest_result",
   "r_last_update"}

\* C18: under a fair scheduler every upload_frame that has begun reaches its
\* response, whatever start, end, upload or poll runs beside it; the lock is
\* held exactly by a thread inside update_result or reset, and the retry loop
\* is never at an attempt beyond max_retries - 1.
C18_UploadReturns ==
  /\ \A t \in Threads :
       (Uploading(t) /\ th[t].pc # "done") ~> (Uploading(t) /\ th[t].pc = "done")
  /\ [](\A t \in Threads :
          /\ (lock = t) <=> (th[t].pc \in C18_Locked)
          /\ th[t].pc \in {"p_attempt", "p_sleep"} =>
               th[t].attempt < CONFIG.max_retries)
  /\ [](lock \in Threads \cup {0})

C18_Witness ==
  \E t \in Threads : \E u \in Threads \ {t} :
    /\ UploadOk(t) /\ th[t].resp.processed_count = 1
    /\ th[u].req = "end" /\ th[u].pc = "done"
    /\ th[u].resp.processed_count = 0
    /\ ~active /\ processed_count = 1
    /\ lock = 0

\* t is an upload that has read its label, frame_number + 1, and was not
\* turned away.
C19_Labelled(t) ==
  /\ Uploading(t) /\ th[t].resp # InactiveError
  /\ th[t].pc \notin {"idle", "u_ex_test_mode", "u_ex_result", "u_arg_frame"}

\* C19: a successful upload reports in its response the frame number it
\* labelled its work with, and two uploads in flight together never carry the
\* same label, also when requests run concurrently.
C19_LabelIsFrame ==
  /\ \A t \in Threads :
       UploadOk(t) => th[t].resp.frame_number = th[t].n
  /\ \A t \in Threads : \A u \in Threads \ {t} :
       (C19_Labelled(t) /\ C19_Labelled(u)) => th[t].n # th[u].n

\* C20: whenever the session is inactive and no store operation is under way,
\* both counters are 0, and no update_result writes a counter or a result
\* into an inactive session: an upload that passed the active check before
\* end_session ran records nothing after the reset.
C20_InactiveIsClean ==
  /\ []((~active /\ \A t \in Threads : ~Writing(t)) =>
          processed_count = 0 /\ frame_number = 0)
  /\ [][ \A t \in Threads :
           (th[t].pc \in {"ur_processed_count", "ur_frame_number",
                          "ur_latest_result"}
              /\ th'[t].pc # th[t].pc) => active ]_vars

====
